---- MODULE Spec2Model ----
(***************************************************************************)
(* AgentDash frontend: the live connection manager (App.jsx), the Kanban   *)
(* board (KanbanBoard), the activity log (ActivityLog.jsx) and the metrics *)
(* cards (Metrics), together with the backend they talk to.                *)
(*                                                                         *)
(* The browser runs every handler to completion on one thread, so each     *)
(* handler, effect and promise continuation is one atomic action.  What is *)
(* concurrent is the network: requests and responses in flight, the socket *)
(* events, the reconnect timer, and other writers of the backend.          *)
(***************************************************************************)
EXTENDS Integers, Sequences, FiniteSets, Bags, TLC

VARIABLES
    app,            \* lifecycle of the App component: "new", "mounted", "unmounted"
    urlOk,          \* whether `new WebSocket(wsUrl)` succeeds for this page's URL
    socks,          \* socket slot -> "free", "connecting", "open", "closing", "closed"
    wsRef,          \* wsRef.current: a socket slot, or 0 for null
    timers,         \* pending setTimeout(connectWebSocket, ...) callbacks: ms left
    isConnected,    \* App state isConnected
    wsData,         \* App state wsData: the latest decoded message, or NoMsg
    effectsPending, \* wsData was set and the [wsData] effects have not run yet
    wsQueue,        \* frames the server has pushed on the open socket, in order
    metrics,        \* Metrics state: the snapshot shown
    metricsGets,    \* bag of in-flight GET /api/metrics requests
    srvMetrics,     \* backend: number of the current metrics snapshot
    tasks,          \* KanbanBoard state tasks
    puts,           \* bag of in-flight PUT /api/tasks/{id} requests
    taskGets,       \* bag of in-flight GET /api/tasks requests
    backend,        \* backend: the task list GET /api/tasks returns
    nextId,         \* backend: the id the next created task gets
    envLeft,        \* changes other writers may still make to the backend
    putsLeft,       \* status updates the user may still start
    activities,     \* ActivityLog state activities
    actGets,        \* bag of in-flight GET /api/activities requests
    srvActs,        \* backend: activities recorded so far, with ids 1..srvActs
    actsLeft,       \* activities the backend may still record
    stamp,          \* what Date.now() returns, counted from the page load
    timeView,       \* the timestamp last rendered: elapsed ms and formatTime's text
    log             \* the kinds of console.error lines written so far

appVars  == <<app, urlOk, socks, wsRef, timers, isConnected, wsData, effectsPending, wsQueue>>
metricVars == <<metrics, metricsGets, srvMetrics>>
boardVars == <<tasks, puts, taskGets, backend, nextId, envLeft, putsLeft>>
actVars  == <<activities, actGets, srvActs, actsLeft, stamp, timeView>>
viewVars == <<metricVars, boardVars, actVars>>
vars     == <<appVars, viewVars, log>>

----------------------------------------------------------------------------
(* Bounds of the model *)

MaxSockets == 2     \* socket slots
MaxTimers  == 2     \* reconnect timers pending at once
MaxQueue   == 2     \* frames in flight on the socket
MaxGets    == 2     \* requests of one kind in flight at once
MaxPuts    == 1     \* status updates started in one run
MaxTasks   == 3     \* tasks the backend ever creates
MaxEnv     == 1     \* changes made to the backend by other writers
MaxNewActs == 3     \* activities the backend records in one run
MaxStamp   == 1     \* ms that pass on the clock of Date.now() in one run
MaxMetrics == 1     \* metrics snapshots the backend publishes in one run
MaxHours   == 25    \* age in hours of the oldest activity rendered

(* Program constants *)

ReconnectDelay == 3000   \* setTimeout(connectWebSocket, 3000)
ActivityCap    == 20     \* [entry, ...prev].slice(0, 20)
FetchLimit     == 20     \* fetch('/api/activities?limit=20')

----------------------------------------------------------------------------
(* Messages on the live channel *)

MsgTypes == {"metrics_update", "task_created", "task_updated", "task_deleted",
             "activity_created", "ingest_received", "finding_discovered",
             "task_completed"}

\* wsData before any message: useState(null)
NoMsg == [type |-> "null", data |-> 0]

\* A frame is text.  JSON.parse either yields the message or throws.  The data
\* of a task event is the task, which no view reads: it is written 0.
Frame(json, type, data) == [json |-> json, type |-> type, data |-> data]
Malformed == Frame(FALSE, "garbage", 0)

\* JSON.parse(event.data): <<TRUE, message>> or <<FALSE, _>> when it throws
JsonParse(f) ==
    IF f.json THEN <<TRUE, [type |-> f.type, data |-> f.data]>>
              ELSE <<FALSE, NoMsg>>

----------------------------------------------------------------------------
(* Metrics snapshot *)

Snapshot(n) == [valid |-> TRUE, total_requests |-> n, success_rate |-> n,
                avg_latency |-> n, active_agents |-> n]

\* The body of an HTTP error response that is valid JSON, such as
\* {"detail": "..."}: an object with none of the expected fields.
ErrSnapshot == [valid |-> FALSE, total_requests |-> 0, success_rate |-> 0,
                avg_latency |-> 0, active_agents |-> 0]

----------------------------------------------------------------------------
(* HTTP requests in flight.  A request is "sent" until the server answers   *)
(* it; the answer then travels back and arrives at any later time, so the   *)
(* answers of two requests can arrive in either order.                      *)

Outcomes == {"ok",           \* 2xx with the expected JSON body
             "error_json",   \* an error status whose body is valid JSON
             "undecodable",  \* a body that is not JSON: response.json() rejects
             "rejected"}     \* network failure: fetch() rejects

\* What `await fetch(); await response.json()` hands to the code after it:
\* neither line looks at response.ok, so any JSON body counts as data.
HasData(outcome) == outcome \in {"ok", "error_json"}

Remove(bag, e) == bag (-) SetToBag({e})
Add(bag, e)    == bag (+) SetToBag({e})
InFlight(bag)  == BagCardinality(bag)

----------------------------------------------------------------------------
(* Live Connection Manager: App.jsx *)

Slots == 1..MaxSockets
Live(i) == socks[i] \in {"connecting", "open"}
SomeOpen == \E i \in Slots : socks[i] = "open"
Reusable == {i \in Slots : socks[i] \in {"free", "closed"}}
NewSlot == CHOOSE i \in Reusable : \A j \in Reusable : i <= j

\* connectWebSocket: new WebSocket(wsUrl) either throws, and the catch logs
\* it, or yields a connecting socket that wsRef.current now names.
ConnectWebSocket ==
    IF urlOk
    THEN /\ Reusable # {}
         /\ socks' = [socks EXCEPT ![NewSlot] = "connecting"]
         /\ wsRef' = NewSlot
         /\ UNCHANGED log
    ELSE /\ log' = log \cup {"Failed to connect WebSocket"}
         /\ UNCHANGED <<socks, wsRef>>

\* A slip in onopen: the flag is not raised.
SockOpen_NoFlag(i) ==
    /\ socks[i] = "connecting"
    /\ socks' = [socks EXCEPT ![i] = "open"]
    /\ UNCHANGED log
    /\ UNCHANGED <<app, urlOk, wsRef, timers, isConnected, wsData, effectsPending, wsQueue,
                   viewVars>>

\* wsRef.current.onopen
SockOpen(i) ==
    /\ socks[i] = "connecting"
    /\ socks' = [socks EXCEPT ![i] = "open"]
    /\ isConnected' = IF app = "mounted" THEN TRUE ELSE isConnected
    /\ UNCHANGED log
    /\ UNCHANGED <<app, urlOk, wsRef, timers, wsData, effectsPending, wsQueue, viewVars>>

\* The delay the onclose handler passes to setTimeout
RetryDelay == ReconnectDelay

\* A slip in onclose: the retry is scheduled only for a socket that had opened.
RetryAfter_OpenOnly(i) ==
    IF socks[i] = "connecting" THEN timers ELSE Append(timers, RetryDelay)

\* onclose: setTimeout(connectWebSocket, 3000), whatever state the socket was in
RetryAfter(i) == Append(timers, RetryDelay)

\* wsRef.current.onclose: the close event of a socket that failed to
\* connect, lost its connection, or finished a close() handshake.  After a
\* failure (err) the browser has fired the error event first, and onerror
\* has logged it.
SockClose(i, err) ==
    /\ socks[i] \in {"connecting", "open", "closing"}
    /\ log' = IF err THEN log \cup {"WebSocket error"} ELSE log
    /\ Len(timers) < MaxTimers
    /\ socks' = [socks EXCEPT ![i] = "closed"]
    /\ isConnected' = IF app = "mounted" THEN FALSE ELSE isConnected
    /\ timers' = RetryAfter(i)
    /\ wsQueue' = IF socks[i] = "open" THEN <<>> ELSE wsQueue
    /\ UNCHANGED <<app, urlOk, wsRef, wsData, effectsPending, viewVars>>

\* One second passes; a timer that is due fires before time moves on.
Tick ==
    /\ timers # <<>>
    /\ \A k \in 1..Len(timers) : timers[k] > 0
    /\ timers' = [k \in 1..Len(timers) |-> timers[k] - 1000]
    /\ UNCHANGED log
    /\ UNCHANGED <<app, urlOk, socks, wsRef, isConnected, wsData, effectsPending, wsQueue, viewVars>>

DropAt(s, k) == [j \in 1..(Len(s) - 1) |-> IF j < k THEN s[j] ELSE s[j + 1]]

\* A slip: setInterval instead of setTimeout, so the timer is armed again.
TimerFire_Interval(k) ==
    /\ k \in 1..Len(timers)
    /\ timers[k] <= 0
    /\ timers' = [timers EXCEPT ![k] = RetryDelay]
    /\ ConnectWebSocket
    /\ UNCHANGED <<app, urlOk, isConnected, wsData, effectsPending, wsQueue, viewVars>>

\* The reconnect timer fires: connectWebSocket()
TimerFire(k) ==
    /\ k \in 1..Len(timers)
    /\ timers[k] <= 0
    /\ timers' = DropAt(timers, k)
    /\ ConnectWebSocket
    /\ UNCHANGED <<app, urlOk, isConnected, wsData, effectsPending, wsQueue, viewVars>>

\* The cleanup of App's mount effect: if (wsRef.current) wsRef.current.close()
Unmount ==
    /\ app = "mounted"
    /\ app' = "unmounted"
    /\ socks' = IF wsRef # 0 /\ Live(wsRef)
                THEN [socks EXCEPT ![wsRef] = "closing"]
                ELSE socks
    /\ wsQueue' = IF wsRef # 0 /\ socks[wsRef] = "open" THEN <<>> ELSE wsQueue
    /\ UNCHANGED log
    /\ UNCHANGED <<urlOk, wsRef, timers, isConnected, wsData, effectsPending, viewVars>>

\* The server pushes a frame to the client if its socket is open.
CanPush == SomeOpen => Len(wsQueue) < MaxQueue
Push(f) == IF SomeOpen THEN Append(wsQueue, f) ELSE wsQueue

ServerPush(f) ==
    /\ SomeOpen
    /\ CanPush
    /\ wsQueue' = Push(f)
    /\ UNCHANGED log
    /\ UNCHANGED <<app, urlOk, socks, wsRef, timers, isConnected, wsData, effectsPending, viewVars>>

\* A slip in onmessage: no try/catch, the frame is published as it came.
OnMessage_Raw(f) ==
    IF app = "mounted"
    THEN <<[type |-> f.type, data |-> f.data], TRUE>>
    ELSE <<wsData, effectsPending>>

\* wsRef.current.onmessage: the next values of <<wsData, effectsPending>>
OnMessage(f) ==
    IF JsonParse(f)[1] /\ app = "mounted"
    THEN <<JsonParse(f)[2], TRUE>>
    ELSE <<wsData, effectsPending>>

\* A frame arrives on the open socket.
Receive ==
    /\ wsQueue # <<>>
    /\ SomeOpen
    /\ wsQueue' = Tail(wsQueue)
    /\ wsData' = OnMessage(Head(wsQueue))[1]
    /\ effectsPending' = OnMessage(Head(wsQueue))[2]
    /\ log' = IF JsonParse(Head(wsQueue))[1] THEN log
              ELSE log \cup {"Failed to parse WebSocket message"}
    /\ UNCHANGED <<app, urlOk, socks, wsRef, timers, isConnected, viewVars>>

----------------------------------------------------------------------------
(* Metrics *)

\* A slip in the effect: the total is merged into the previous snapshot.
MetricsEffect_Merge(msg) ==
    IF msg.type = "metrics_update"
    THEN [metrics EXCEPT !.total_requests = msg.data]
    ELSE metrics

\* Metrics' effect on [wsData]: setMetrics(wsData.data)
MetricsEffect(msg) ==
    IF msg.type = "metrics_update" THEN Snapshot(msg.data) ELSE metrics

----------------------------------------------------------------------------
(* Kanban board: tasks *)

Statuses == {"permanent", "backlog", "in_progress", "completed"}

\* A JSON body handed to setTasks / setActivities: an array, or the object
\* of an error response.
List(s) == [array |-> TRUE, items |-> s]
ErrBody == [array |-> FALSE, items |-> <<>>]

Ids(items) == {items[k].id : k \in 1..Len(items)}

\* Which task has which status, whatever the order
StatusOf(items) == {<<items[k].id, items[k].status>> : k \in 1..Len(items)}

\* A slip in the lookup: a miss yields the first task instead of nothing.
Find_OrFirst(items, id) ==
    IF \E k \in 1..Len(items) : items[k].id = id
    THEN CHOOSE k \in 1..Len(items) :
            /\ items[k].id = id
            /\ \A j \in 1..(k - 1) : items[j].id # id
    ELSE IF Len(items) > 0 THEN 1 ELSE 0

\* tasks.find(t => t.id === id): the index of the first match, 0 if none
Find(items, id) ==
    IF \E k \in 1..Len(items) : items[k].id = id
    THEN CHOOSE k \in 1..Len(items) :
            /\ items[k].id = id
            /\ \A j \in 1..(k - 1) : items[j].id # id
    ELSE 0

\* items.findIndex(i => i.id === id): zero-based, -1 if none
FindIndex(items, id) == Find(items, id) - 1

Min(a, b) == IF a < b THEN a ELSE b

\* A slip in arrayMove: the element is inserted at `to` but not taken out.
ArrayMove_NoRemove(array, from, to) ==
    LET n == Len(array)
        f == IF from < 0 THEN n + from ELSE from
        t == IF to < 0 THEN n + to ELSE to
    IN  [k \in 1..(n + 1) |-> IF k <= t THEN array[k]
                              ELSE IF k = t + 1 THEN array[f + 1]
                              ELSE array[k - 1]]

\* arrayMove(array, from, to) of @dnd-kit/sortable, on zero-based indices:
\*   newArray.splice(to < 0 ? newArray.length + to : to, 0,
\*                   newArray.splice(from, 1)[0])
\* for a non-empty array and from, to in -Len..Len-1.
ArrayMove(array, from, to) ==
    LET n    == Len(array)
        f    == IF from < 0 THEN n + from ELSE from
        t    == IF to < 0 THEN n + to ELSE to
        rest == [k \in 1..(n - 1) |-> IF k <= f THEN array[k] ELSE array[k + 1]]
        p    == Min(t, n - 1)
    IN  [k \in 1..n |-> IF k <= p THEN rest[k]
                        ELSE IF k = p + 1 THEN array[f + 1]
                        ELSE rest[k - 1]]

\* A slip in the filter: the column comes out newest first.
Column_Reversed(items, st) ==
    LET col == SelectSeq(items, LAMBDA t : t.status = st)
    IN  [k \in 1..Len(col) |-> col[Len(col) + 1 - k]]

\* tasks.filter(t => t.status === status): the tasks of one column
Column(items, st) == SelectSeq(items, LAMBDA t : t.status = st)

\* The rendered tree is alive: mounted, and no render has thrown on a state
\* that is not the array or snapshot the JSX expects.
Alive == app = "mounted" /\ tasks.array /\ metrics.valid /\ activities.array

----------------------------------------------------------------------------
(* Requests of the board.  A PUT, and the GET that updateTaskStatus issues   *)
(* after it, carry the history of the drag they belong to: the dragged      *)
(* task, the status of the drop target, whether the backend applied the     *)
(* update, the statuses the client showed at the drag, and whether the drag *)
(* was made on a list that matched the backend and its update is the only   *)
(* write the backend has seen since.  No code reads the history: it is kept *)
(* to state what a drag achieved.                                           *)

NoDrag == [drag |-> FALSE, task |-> 0, want |-> "none", applied |-> FALSE,
           pre |-> {}, alone |-> FALSE]

DragHistory(activeId, overStatus) ==
    [drag |-> TRUE, task |-> activeId, want |-> overStatus, applied |-> FALSE,
     pre |-> StatusOf(tasks.items),
     alone |-> StatusOf(tasks.items) = StatusOf(backend)]

SentGet(cause) == [stage |-> "sent", body |-> List(<<>>), cause |-> cause]

\* fetchTasks: the request leaves; a later step answers it
FetchTasks(cause) == Add(taskGets, SentGet(cause))

\* The server answers GET /api/tasks with its list as it is now.
ServerAnswerTasks(g) ==
    /\ g \in BagToSet(taskGets)
    /\ g.stage = "sent"
    /\ taskGets' = Add(Remove(taskGets, g),
                       [g EXCEPT !.stage = "answered", !.body = List(backend)])
    /\ UNCHANGED log
    /\ UNCHANGED <<appVars, metricVars, actVars, tasks, puts, backend, nextId, envLeft, putsLeft>>

\* What response.json() yields for an outcome that has data
TasksBody(g, outcome) == IF outcome = "ok" THEN g.body ELSE ErrBody

\* fetchTasks after its awaits: setTasks(data), or the catch that logs
SetTasksFrom(g, outcome) ==
    IF HasData(outcome) /\ Alive THEN TasksBody(g, outcome) ELSE tasks

\* The request settles: the answer arrives, or the request fails.  A failure
\* carries nothing of the backend's state, so it needs no answer in flight.
TasksSettle(g, outcome) ==
    /\ g \in BagToSet(taskGets)
    /\ g.stage = IF outcome = "ok" THEN "answered" ELSE "sent"
    /\ taskGets' = Remove(taskGets, g)
    /\ tasks' = SetTasksFrom(g, outcome)
    /\ log' = IF HasData(outcome) THEN log ELSE log \cup {"Failed to fetch tasks"}
    /\ UNCHANGED <<appVars, metricVars, actVars, puts, backend, nextId, envLeft, putsLeft>>

\* A slip in the updater: the indices are taken within the column, not the
\* full list.
Reorder_ColumnIndex(items, activeId, overId) ==
    LET col == Column(items, items[Find(items, activeId)].status)
    IN  ArrayMove(items, FindIndex(col, activeId), FindIndex(col, overId))

\* The setTasks updater of the same-column branch
Reorder(items, activeId, overId) ==
    ArrayMove(items, FindIndex(items, activeId), FindIndex(items, overId))

\* A slip in updateTaskStatus: the body carries the column's title.
PutRequest_Title(taskId, newStatus) ==
    [id |-> taskId, status |-> IF newStatus = "in_progress" THEN "In Progress" ELSE newStatus]

\* A slip in updateTaskStatus: the body asks for "completed" whatever the
\* column the task was dropped on.
PutRequest_Completed(taskId, newStatus) == [id |-> taskId, status |-> "completed"]

\* A slip in updateTaskStatus: the body carries the task's own status.
PutRequest_OwnStatus(taskId, newStatus) ==
    [id |-> taskId, status |-> tasks.items[Find(tasks.items, taskId)].status]

\* updateTaskStatus up to its await: PUT /api/tasks/${taskId} with the body
\* {status: newStatus}
PutRequest(taskId, newStatus) == [id |-> taskId, status |-> newStatus]

\* A slip in handleDragEnd: the status change is also applied to the local
\* list before the request is sent.
DragEnd_Optimistic(activeId, overId) ==
    LET items == tasks.items
        ai    == Find(items, activeId)
        oi    == Find(items, overId)
    IN  /\ Alive
        /\ IF overId = 0 \/ ai = 0 \/ oi = 0
           THEN UNCHANGED <<tasks, puts, putsLeft>>
           ELSE IF items[ai].status = items[oi].status
           THEN /\ tasks' = List(Reorder(items, activeId, overId))
                /\ UNCHANGED <<puts, putsLeft>>
           ELSE /\ putsLeft > 0
                /\ putsLeft' = putsLeft - 1
                /\ puts' = Add(puts, [req  |-> PutRequest(activeId, items[oi].status),
                                      hist |-> DragHistory(activeId, items[oi].status)])
                /\ tasks' = List([k \in 1..Len(items) |->
                                    IF k = ai THEN [items[k] EXCEPT !.status = items[oi].status]
                                    ELSE items[k]])
        /\ UNCHANGED log
        /\ UNCHANGED <<appVars, metricVars, actVars, taskGets, backend, nextId, envLeft>>

\* handleDragEnd({active, over}); over = 0 stands for a null drop target
\* A slip in handleDragEnd: the same-status branch also saves the moved task
\* through updateTaskStatus.
DragEnd_Persist(activeId, overId) ==
    LET items == tasks.items
        ai    == Find(items, activeId)
        oi    == Find(items, overId)
    IN  /\ Alive
        /\ IF overId = 0 \/ ai = 0 \/ oi = 0
           THEN UNCHANGED <<tasks, puts, putsLeft>>
           ELSE /\ putsLeft > 0
                /\ putsLeft' = putsLeft - 1
                /\ puts' = Add(puts, [req  |-> PutRequest(activeId, items[oi].status),
                                      hist |-> DragHistory(activeId, items[oi].status)])
                /\ tasks' = IF items[ai].status = items[oi].status
                            THEN List(Reorder(items, activeId, overId))
                            ELSE tasks
        /\ UNCHANGED log
        /\ UNCHANGED <<appVars, metricVars, actVars, taskGets, backend, nextId, envLeft>>

DragEnd(activeId, overId) ==
    LET items == tasks.items
        ai    == Find(items, activeId)
        oi    == Find(items, overId)
    IN  /\ Alive
        /\ IF overId = 0 \/ ai = 0 \/ oi = 0
           THEN UNCHANGED <<tasks, puts, putsLeft>>
           ELSE IF items[ai].status = items[oi].status
           THEN /\ tasks' = List(Reorder(items, activeId, overId))
                /\ UNCHANGED <<puts, putsLeft>>
           ELSE /\ putsLeft > 0
                /\ putsLeft' = putsLeft - 1
                /\ puts' = Add(puts, [req  |-> PutRequest(activeId, items[oi].status),
                                      hist |-> DragHistory(activeId, items[oi].status)])
                /\ UNCHANGED tasks
        /\ UNCHANGED log
        /\ UNCHANGED <<appVars, metricVars, actVars, taskGets, backend, nextId, envLeft>>

\* Another write reached the backend: no drag in flight has it to itself.
Shared(r) == [r EXCEPT !.hist.alone = FALSE]
SharedGet(g) == IF g.stage = "sent" THEN [g EXCEPT !.cause.alone = FALSE] ELSE g

SetStatus(list, id, st) ==
    [k \in 1..Len(list) |-> IF list[k].id = id THEN [list[k] EXCEPT !.status = st]
                            ELSE list[k]]

PutOutcomes == {"ok",        \* applied, 2xx
                "error",     \* refused with an error status, not applied
                "rejected",  \* network failure before the server saw it
                "lost"}      \* applied, but the response never came back

Applied(outcome)  == outcome \in {"ok", "lost"}
Resolved(outcome) == outcome \in {"ok", "error"}

Refetch(p, outcome) ==
    SentGet([p.hist EXCEPT !.applied = (outcome = "ok"),
                           !.alone = (p.hist.alone /\ outcome = "ok")])

\* A slip in updateTaskStatus: fetchTasks() in a finally block.
AfterPut_Always(p, outcome, gets) == Add(gets, Refetch(p, outcome))

\* updateTaskStatus after its await: fetchTasks(), or the catch that logs
AfterPut(p, outcome, gets) ==
    IF Resolved(outcome) THEN Add(gets, Refetch(p, outcome)) ELSE gets

\* The PUT reaches the server (or not) and its promise settles.
PutSettle(p, outcome) ==
    /\ p \in BagToSet(puts)
    /\ Applied(outcome) => p.req.id \in Ids(backend) /\ CanPush
    /\ InFlight(taskGets) < MaxGets
    /\ backend' = IF Applied(outcome)
                  THEN SetStatus(backend, p.req.id, p.req.status)
                  ELSE backend
    /\ wsQueue' = IF Applied(outcome) THEN Push(Frame(TRUE, "task_updated", 0)) ELSE wsQueue
    /\ puts' = IF Applied(outcome) THEN BagOfAll(Shared, Remove(puts, p)) ELSE Remove(puts, p)
    /\ log' = IF Resolved(outcome) THEN log ELSE log \cup {"Failed to update task"}
    /\ taskGets' = AfterPut(p, outcome,
                            IF Applied(outcome) THEN BagOfAll(SharedGet, taskGets) ELSE taskGets)
    /\ UNCHANGED <<app, urlOk, socks, wsRef, timers, isConnected, wsData, effectsPending,
                   metricVars, actVars, tasks, nextId, envLeft, putsLeft>>

\* Other writers of the backend (agents, other clients): each write is
\* broadcast on the live channel.
EnvWrite(list, frame) ==
    /\ envLeft > 0
    /\ CanPush
    /\ envLeft' = envLeft - 1
    /\ backend' = list
    /\ wsQueue' = Push(frame)
    /\ puts' = BagOfAll(Shared, puts)
    /\ taskGets' = BagOfAll(SharedGet, taskGets)
    /\ UNCHANGED <<app, urlOk, socks, wsRef, timers, isConnected, wsData, effectsPending,
                   metricVars, actVars, tasks, putsLeft, log>>

EnvCreate(st) ==
    /\ nextId <= MaxTasks
    /\ nextId' = nextId + 1
    /\ EnvWrite(Append(backend, [id |-> nextId, status |-> st]),
                Frame(TRUE, "task_created", 0))

EnvUpdate(id, st) ==
    /\ id \in Ids(backend)
    /\ backend[Find(backend, id)].status # st
    /\ UNCHANGED nextId
    /\ EnvWrite(SetStatus(backend, id, st), Frame(TRUE, "task_updated", 0))

EnvDelete(id) ==
    /\ id \in Ids(backend)
    /\ UNCHANGED nextId
    /\ EnvWrite(SelectSeq(backend, LAMBDA t : t.id # id), Frame(TRUE, "task_deleted", 0))

----------------------------------------------------------------------------
(* Requests of the metrics cards *)

SentMetricsGet == [stage |-> "sent", body |-> Snapshot(0)]

ServerAnswerMetrics(g) ==
    /\ g \in BagToSet(metricsGets)
    /\ g.stage = "sent"
    /\ metricsGets' = Add(Remove(metricsGets, g),
                          [g EXCEPT !.stage = "answered", !.body = Snapshot(srvMetrics)])
    /\ UNCHANGED log
    /\ UNCHANGED <<appVars, boardVars, actVars, metrics, srvMetrics>>

MetricsBody(g, outcome) == IF outcome = "ok" THEN g.body ELSE ErrSnapshot

\* fetchMetrics after its awaits: setMetrics(data), or the catch that logs
SetMetricsFrom(g, outcome) ==
    IF HasData(outcome) /\ Alive THEN MetricsBody(g, outcome) ELSE metrics

MetricsSettle(g, outcome) ==
    /\ g \in BagToSet(metricsGets)
    /\ g.stage = IF outcome = "ok" THEN "answered" ELSE "sent"
    /\ metricsGets' = Remove(metricsGets, g)
    /\ metrics' = SetMetricsFrom(g, outcome)
    /\ log' = IF HasData(outcome) THEN log ELSE log \cup {"Failed to fetch metrics"}
    /\ UNCHANGED <<appVars, boardVars, actVars, srvMetrics>>

\* The backend computes a new snapshot and broadcasts it.
EnvMetrics ==
    /\ srvMetrics < MaxMetrics
    /\ CanPush
    /\ srvMetrics' = srvMetrics + 1
    /\ wsQueue' = Push(Frame(TRUE, "metrics_update", srvMetrics + 1))
    /\ UNCHANGED log
    /\ UNCHANGED <<app, urlOk, socks, wsRef, timers, isConnected, wsData, effectsPending,
                   boardVars, actVars, metrics, metricsGets>>

----------------------------------------------------------------------------
(* The activity log *)

\* An entry of the log: a backend activity carries the backend's id, an entry
\* the client makes for an ingest carries Date.now().
Act(id, src) == [id |-> id, src |-> src]

\* Date.now() is an epoch time in ms, far above every id the backend issues.
DateNow == 1000 + stamp

Elapse ==
    /\ stamp < MaxStamp
    /\ stamp' = stamp + 1
    /\ UNCHANGED log
    /\ UNCHANGED <<appVars, metricVars, boardVars, activities, actGets, srvActs, actsLeft,
                   timeView>>

\* Math.floor(a / b) for a positive b
Floor(a, b) == a \div b

\* A slip in formatTime: Math.round instead of Math.floor
FormatTime_Round(diffMs) ==
    LET diffMins  == Floor(2 * diffMs + 60000, 2 * 60000)
        diffHours == Floor(2 * diffMs + 3600000, 2 * 3600000)
    IN  IF diffMins < 1 THEN [kind |-> "Just now", n |-> 0]
        ELSE IF diffMins < 60 THEN [kind |-> "m ago", n |-> diffMins]
        ELSE IF diffHours < 24 THEN [kind |-> "h ago", n |-> diffHours]
        ELSE [kind |-> "date", n |-> 0]

\* formatTime(dateString) for a date that lies diffMs before now: the text
\* 'Just now', `${n}m ago`, `${n}h ago`, or date.toLocaleDateString()
FormatTime(diffMs) ==
    LET diffMins  == Floor(diffMs, 60000)
        diffHours == Floor(diffMs, 3600000)
    IN  IF diffMins < 1 THEN [kind |-> "Just now", n |-> 0]
        ELSE IF diffMins < 60 THEN [kind |-> "m ago", n |-> diffMins]
        ELSE IF diffHours < 24 THEN [kind |-> "h ago", n |-> diffHours]
        ELSE [kind |-> "date", n |-> 0]

\* Nothing rendered yet
NoTime == [diff |-> 0, text |-> [kind |-> "none", n |-> 0]]

\* The log renders an activity created diffMs ago.
RenderTime(diffMs) ==
    /\ timeView' = [diff |-> diffMs, text |-> FormatTime(diffMs)]
    /\ UNCHANGED log
    /\ UNCHANGED <<appVars, metricVars, boardVars, activities, actGets, srvActs, actsLeft,
                   stamp>>

\* A slip in the cap: slice(0, n + 1)
SliceHead_OneMore(list, n) == SubSeq(list, 1, Min(n + 1, Len(list)))

\* list.slice(0, n)
SliceHead(list, n) == SubSeq(list, 1, Min(n, Len(list)))

\* newActivity of the ingest_received branch
NewActivity == Act(DateNow, "ingest")

\* ActivityLog's effect on [wsData]
ActivityEffect(msg) ==
    IF msg.type = "activity_created"
    THEN List(SliceHead(<<Act(msg.data, "server")>> \o activities.items, ActivityCap))
    ELSE IF msg.type = "ingest_received"
    THEN List(SliceHead(<<NewActivity>> \o activities.items, ActivityCap))
    ELSE activities

\* GET /api/activities?limit=n: the n most recent activities, newest first
Newest(n) == [k \in 1..Min(n, srvActs) |-> Act(srvActs - k + 1, "server")]

SentActsGet == [stage |-> "sent", body |-> List(<<>>)]

ServerAnswerActs(g) ==
    /\ g \in BagToSet(actGets)
    /\ g.stage = "sent"
    /\ actGets' = Add(Remove(actGets, g),
                      [g EXCEPT !.stage = "answered", !.body = List(Newest(FetchLimit))])
    /\ UNCHANGED log
    /\ UNCHANGED <<appVars, metricVars, boardVars, activities, srvActs, actsLeft, stamp, timeView>>

ActsBody(g, outcome) == IF outcome = "ok" THEN g.body ELSE ErrBody

\* fetchActivities after its awaits: setActivities(data), or the catch that logs
SetActivitiesFrom(g, outcome) ==
    IF HasData(outcome) /\ Alive THEN ActsBody(g, outcome) ELSE activities

ActsSettle(g, outcome) ==
    /\ g \in BagToSet(actGets)
    /\ g.stage = IF outcome = "ok" THEN "answered" ELSE "sent"
    /\ actGets' = Remove(actGets, g)
    /\ activities' = SetActivitiesFrom(g, outcome)
    /\ log' = IF HasData(outcome) THEN log ELSE log \cup {"Failed to fetch activities"}
    /\ UNCHANGED <<appVars, metricVars, boardVars, srvActs, actsLeft, stamp, timeView>>

\* The backend records an activity and broadcasts it.
EnvRecord(frame) ==
    /\ actsLeft > 0
    /\ CanPush
    /\ actsLeft' = actsLeft - 1
    /\ srvActs' = srvActs + 1
    /\ wsQueue' = Push(frame)
    /\ UNCHANGED log
    /\ UNCHANGED <<app, urlOk, socks, wsRef, timers, isConnected, wsData, effectsPending,
                   metricVars, boardVars, activities, actGets, stamp, timeView>>

EnvActivity == EnvRecord(Frame(TRUE, "activity_created", srvActs + 1))

\* POST /api/ingest from an agent
EnvIngest == EnvRecord(Frame(TRUE, "ingest_received", 0))

----------------------------------------------------------------------------
(* Mounting, and the effects that depend on wsData *)

TaskEvents == {"task_created", "task_updated", "task_deleted"}

\* KanbanBoard's effect on [wsData]
BoardEffect(msg) ==
    IF msg.type \in TaskEvents THEN FetchTasks(NoDrag) ELSE taskGets

\* React commits the pending wsData and runs each view's [wsData] effect once,
\* with the latest value.
RunEffects ==
    /\ effectsPending
    /\ Alive
    /\ effectsPending' = FALSE
    /\ metrics' = MetricsEffect(wsData)
    /\ wsData.type \in TaskEvents => InFlight(taskGets) < MaxGets
    /\ taskGets' = BoardEffect(wsData)
    /\ activities' = ActivityEffect(wsData)
    /\ UNCHANGED log
    /\ UNCHANGED <<app, urlOk, socks, wsRef, timers, isConnected, wsData, wsQueue,
                   metricsGets, srvMetrics, tasks, puts, backend, nextId, envLeft, putsLeft,
                   actGets, srvActs, actsLeft, stamp, timeView>>

\* The first commit: every view's mount effect, then App's.
Mount ==
    /\ app = "new"
    /\ app' = "mounted"
    /\ metricsGets' = Add(metricsGets, SentMetricsGet)
    /\ taskGets' = FetchTasks(NoDrag)
    /\ actGets' = Add(actGets, SentActsGet)
    /\ ConnectWebSocket
    /\ UNCHANGED <<urlOk, timers, isConnected, wsData, effectsPending, wsQueue,
                   metrics, srvMetrics, tasks, puts, backend, nextId, envLeft, putsLeft,
                   activities, srvActs, actsLeft, stamp, timeView>>

----------------------------------------------------------------------------
(* Initial states: the components as constructed, before the first commit *)

InitApp ==
    /\ app = "new"
    /\ urlOk \in BOOLEAN
    /\ socks = [i \in Slots |-> "free"]
    /\ wsRef = 0
    /\ timers = <<>>
    /\ isConnected = FALSE
    /\ wsData = NoMsg
    /\ effectsPending = FALSE
    /\ wsQueue = <<>>
    /\ log = {}

InitViews ==
    /\ metrics = Snapshot(0)
    /\ metricsGets = EmptyBag
    /\ tasks = List(<<>>)
    /\ puts = EmptyBag
    /\ taskGets = EmptyBag
    /\ activities = List(<<>>)
    /\ actGets = EmptyBag
    /\ stamp = 0
    /\ timeView = NoTime

\* The backend's list at the start: one permanent task, then backlog tasks,
\* ids in creation order.
StartList(n) == [k \in 1..n |-> [id |-> k, status |-> IF k = 1 THEN "permanent" ELSE "backlog"]]
BackendLists == {StartList(MaxTasks - 1), StartList(MaxTasks)}

----------------------------------------------------------------------------
(* The connection manager alone: the server pushes any frame *)

ConnFrames == {Malformed, Frame(TRUE, "metrics_update", 1), Frame(TRUE, "task_completed", 0)}

InitConn ==
    /\ InitApp
    /\ InitViews
    /\ srvMetrics = 0
    /\ backend = <<>>
    /\ nextId = 1
    /\ envLeft = 0
    /\ putsLeft = 0
    /\ srvActs = 0
    /\ actsLeft = 0

NextConn ==
    \/ Mount
    \/ \E i \in Slots : SockOpen(i)
    \/ \E i \in Slots, err \in BOOLEAN : SockClose(i, err)
    \/ Tick
    \/ \E k \in 1..MaxTimers : TimerFire(k)
    \/ Unmount
    \/ \E f \in ConnFrames : ServerPush(f)
    \/ Receive
    \/ RunEffects

SpecConn == InitConn /\ [][NextConn]_vars

\* Time passes and the browser runs a timer that is due.
SpecConnFair ==
    /\ SpecConn
    /\ WF_vars(Tick)
    /\ WF_vars(\E k \in 1..MaxTimers : TimerFire(k))

----------------------------------------------------------------------------
(* Properties of the connection manager *)

NoLiveSocket == \A i \in Slots : socks[i] \in {"free", "closed"}
Down == app # "new" /\ urlOk /\ NoLiveSocket
Attempt == \E i \in Slots : socks[i] = "connecting"

\* C5: every close of a socket, a failed attempt included, schedules
\* connectWebSocket after the fixed 3000 ms, and whenever the channel is down
\* a new connection attempt follows.
C5_Reconnects ==
    /\ [][\A i \in Slots, err \in BOOLEAN :
           SockClose(i, err) => timers' = Append(timers, ReconnectDelay)]_vars
    /\ Down ~> Attempt

\* A new attempt is under way after the channel had been open and closed.
C5_Witness ==
    /\ Attempt
    /\ ~isConnected
    /\ wsData # NoMsg

\* C6: a frame that fails to decode changes neither the connected flag nor
\* the published message, schedules no effect and changes no view's state.
C6_MalformedDiscarded ==
    [][(Receive /\ ~JsonParse(Head(wsQueue))[1]) =>
          UNCHANGED <<isConnected, wsData, effectsPending, viewVars>>]_vars

\* A frame was discarded while the channel was up and an earlier message
\* stays published.
C6_Witness ==
    /\ "Failed to parse WebSocket message" \in log
    /\ isConnected
    /\ SomeOpen
    /\ wsData.type = "metrics_update"

InUse == {i \in Slots : socks[i] \in {"connecting", "open", "closing"}}

\* C7: at most one socket is connecting or open, and a reconnect is pending
\* only while no socket is connecting, open or still closing.
C7_OneConnection ==
    /\ Cardinality({i \in Slots : Live(i)}) <= 1
    /\ Cardinality(InUse) + Len(timers) <= 1

\* A reconnect is pending, part of its delay has passed, and the socket
\* before it is closed.
C7_Witness ==
    /\ app = "mounted"
    /\ Len(timers) = 1
    /\ timers[1] < ReconnectDelay
    /\ InUse = {}
    /\ wsRef # 0
    /\ socks[wsRef] = "closed"

----------------------------------------------------------------------------
(* The board with its backend *)

InitBoard ==
    /\ InitApp
    /\ urlOk
    /\ InitViews
    /\ srvMetrics = 0
    /\ backend \in BackendLists
    /\ nextId = Len(backend) + 1
    /\ envLeft = MaxEnv
    /\ putsLeft = MaxPuts
    /\ srvActs = 0
    /\ actsLeft = 0

NextBoard ==
    \/ Mount
    \/ \E i \in Slots : SockOpen(i)
    \/ Receive
    \/ RunEffects
    \/ \E a \in 1..MaxTasks, o \in 0..MaxTasks : DragEnd(a, o)
    \/ \E p \in BagToSet(puts), oc \in PutOutcomes : PutSettle(p, oc)
    \/ \E g \in BagToSet(taskGets) : ServerAnswerTasks(g)
    \/ \E g \in BagToSet(taskGets), oc \in Outcomes : TasksSettle(g, oc)
    \/ \E st \in Statuses : EnvCreate(st)
    \/ \E id \in 1..MaxTasks, st \in Statuses : EnvUpdate(id, st)
    \/ \E id \in 1..MaxTasks : EnvDelete(id)

SpecBoard == InitBoard /\ [][NextBoard]_vars

----------------------------------------------------------------------------
(* Properties of the drag handler *)

Pos(items, id) == Find(items, id)
SameStatusDrag(a, o) ==
    /\ Pos(tasks.items, a) # 0
    /\ Pos(tasks.items, o) # 0
    /\ tasks.items[Pos(tasks.items, a)].status = tasks.items[Pos(tasks.items, o)].status

CrossStatusDrag(a, o) ==
    /\ Pos(tasks.items, a) # 0
    /\ Pos(tasks.items, o) # 0
    /\ tasks.items[Pos(tasks.items, a)].status # tasks.items[Pos(tasks.items, o)].status

Count(items, t) == Cardinality({k \in 1..Len(items) : items[k] = t})

\* C1: a same-status drag-end yields a permutation of the list in which the
\* dragged task sits at the index the target held in the full list and every
\* two other tasks keep their relative order.
C1_SameStatusReorder ==
    [][\A a \in 1..MaxTasks, o \in 1..MaxTasks :
         (DragEnd(a, o) /\ SameStatusDrag(a, o)) =>
            LET old == tasks.items
                new == tasks'.items
            IN  /\ tasks'.array
                /\ Len(new) = Len(old)
                /\ \A k \in 1..Len(old) : Count(new, old[k]) = Count(old, old[k])
                /\ new[Pos(old, o)] = old[Pos(old, a)]
                /\ \A x \in Ids(old) \ {a}, y \in Ids(old) \ {a} :
                      Pos(old, x) < Pos(old, y) => Pos(new, x) < Pos(new, y)
      ]_vars

\* A reorder has happened: the client shows a task before one created earlier,
\* which no answer of the backend does.
C1_Witness ==
    /\ tasks.array
    /\ \E i \in 1..Len(tasks.items), j \in 1..Len(tasks.items) :
          i < j /\ tasks.items[i].id > tasks.items[j].id

\* C2: no drag-end, whatever its target, duplicates or drops a task: the list
\* after it holds each task id exactly as often as before.
C2_DragKeepsTasks ==
    [][\A a \in 1..MaxTasks, o \in 0..MaxTasks :
         DragEnd(a, o) =>
            /\ tasks'.array
            /\ Len(tasks'.items) = Len(tasks.items)
            /\ \A id \in 1..MaxTasks :
                  Cardinality({k \in 1..Len(tasks'.items) : tasks'.items[k].id = id})
                = Cardinality({k \in 1..Len(tasks.items) : tasks.items[k].id = id})
      ]_vars

\* Drags of both kinds have happened on a list of several tasks: the order is
\* not the backend's and a status update is in flight.
C2_Witness ==
    /\ C1_Witness
    /\ Len(tasks.items) >= 3
    /\ puts # EmptyBag

\* What the claim says a cross-status drag has achieved once its refetch is
\* in: the dragged task, if listed, has the target's status, and every other
\* task listed before and after has the status it had at the drag.
DragAchieved(h, new) ==
    \A k \in 1..Len(new) :
       IF new[k].id = h.task
       THEN new[k].status = h.want
       ELSE new[k].id \in {pr[1] : pr \in h.pre}
               => <<new[k].id, new[k].status>> \in h.pre

\* The same, and no task has come or gone.
DragAchievedExactly(h, new) ==
    StatusOf(new) = {pr \in h.pre : pr[1] # h.task} \cup {<<h.task, h.want>>}

\* C3 as claimed: after any cross-status drag whose update was applied, the
\* list the refetch brings shows the dragged task with the target's status
\* and every other task with its status from before the drag.
C3_Original ==
    [][\A g \in BagToSet(taskGets) :
         (TasksSettle(g, "ok") /\ Alive /\ g.cause.drag /\ g.cause.applied)
            => DragAchieved(g.cause, tasks'.items)
      ]_vars

\* C3 amended: the same holds when the drag was made on a list showing the
\* backend's statuses and no other write reached the backend between the
\* drag and the backend's answer to the refetch.
C3_Amended ==
    [][\A g \in BagToSet(taskGets) :
         (TasksSettle(g, "ok") /\ Alive /\ g.cause.drag /\ g.cause.applied
            /\ g.cause.alone)
            => /\ tasks'.array
               /\ DragAchieved(g.cause, tasks'.items)
               /\ DragAchievedExactly(g.cause, tasks'.items)
      ]_vars

StartStatuses == {StatusOf(l) : l \in BackendLists}

\* A drag's update and refetch have completed with no other writer involved:
\* the client shows statuses the backend did not start with, and nothing is
\* in flight.
C3_Witness ==
    /\ Alive
    /\ envLeft = MaxEnv
    /\ puts = EmptyBag
    /\ taskGets = EmptyBag
    /\ StatusOf(tasks.items) = StatusOf(backend)
    /\ StatusOf(backend) \notin StartStatuses

\* The PUT of a cross-status drag: one request more, for the dragged id, with
\* the target's status as its body, and the list untouched.
PutSent(a, o) ==
    /\ tasks' = tasks
    /\ InFlight(puts') = InFlight(puts) + 1
    /\ \E p \in BagToSet(puts') :
          /\ puts' = Add(puts, p)
          /\ p.req = [id |-> a, status |-> tasks.items[Pos(tasks.items, o)].status]

Refetched == InFlight(taskGets') = InFlight(taskGets) + 1

----------------------------------------------------------------------------
(* The activity log: the backend records activities and ingests while the  *)
(* page is open.  It starts empty, one short of the cap, or past the cap.  *)

ActLive == {"activity_created", "ingest_received"}

InitAct ==
    /\ InitApp
    /\ urlOk
    /\ InitViews
    /\ srvMetrics = 0
    /\ backend = <<>>
    /\ nextId = 1
    /\ envLeft = 0
    /\ putsLeft = 0
    /\ srvActs \in {0, ActivityCap - 1, ActivityCap + 1}
    /\ actsLeft = MaxNewActs

NextAct ==
    \/ Mount
    \/ \E i \in Slots : SockOpen(i)
    \/ Receive
    \/ RunEffects
    \/ Elapse
    \/ EnvActivity
    \/ EnvIngest
    \/ \E g \in BagToSet(actGets) : ServerAnswerActs(g)
    \/ \E g \in BagToSet(actGets), outcome \in Outcomes : ActsSettle(g, outcome)

SpecAct == InitAct /\ [][NextAct]_vars

\* The effects run on a live activity message.
LiveInsert == effectsPending /\ ~effectsPending' /\ wsData.type \in ActLive

\* C9: the activity list never holds more than 20 entries, whatever the
\* initial fetch returned and whatever activity_created and ingest_received
\* messages were processed; a live activity is placed first, the entries
\* before it keep their order behind it, and when the list already held 20
\* it is the last one that is dropped.
C9_ActivityCap ==
    /\ [](activities.array => Len(activities.items) <= ActivityCap)
    /\ [][LiveInsert =>
            LET old == activities.items
                new == activities'.items
            IN  /\ activities'.array
                /\ Len(new) = Min(Len(old) + 1, ActivityCap)
                /\ new[1] = IF wsData.type = "activity_created"
                            THEN Act(wsData.data, "server")
                            ELSE Act(DateNow, "ingest")
                /\ \A k \in 2..Len(new) : new[k] = old[k - 1]]_vars

\* A full list fetched from the backend took a live ingest: the fetch had
\* returned 20 entries, the ingest is first and the oldest has gone.
C9_Witness ==
    /\ activities.array
    /\ Len(activities.items) = ActivityCap
    /\ activities.items[1].src = "ingest"
    /\ activities.items[2].id = ActivityCap + 1
    /\ activities.items[ActivityCap].id = 3

----------------------------------------------------------------------------
(* Synchronisation with the backend: other writers change the task list    *)
(* while the client's socket is open, so every change is notified; every   *)
(* request is answered with 200 and its body, and the user does not drag.  *)

NotifiedCreate(st) == SomeOpen /\ EnvCreate(st)
NotifiedUpdate(id, st) == SomeOpen /\ EnvUpdate(id, st)
NotifiedDelete(id) == SomeOpen /\ EnvDelete(id)

InitSync ==
    /\ InitApp
    /\ urlOk
    /\ InitViews
    /\ srvMetrics = 0
    /\ backend \in BackendLists
    /\ nextId = Len(backend) + 1
    /\ envLeft = MaxEnv
    /\ putsLeft = 0
    /\ srvActs = 0
    /\ actsLeft = 0

NextSync ==
    \/ Mount
    \/ \E i \in Slots : SockOpen(i)
    \/ Receive
    \/ RunEffects
    \/ \E g \in BagToSet(taskGets) : ServerAnswerTasks(g)
    \/ \E g \in BagToSet(taskGets) : TasksSettle(g, "ok")
    \/ \E st \in Statuses : NotifiedCreate(st)
    \/ \E id \in 1..MaxTasks, st \in Statuses : NotifiedUpdate(id, st)
    \/ \E id \in 1..MaxTasks : NotifiedDelete(id)

SpecSync == InitSync /\ [][NextSync]_vars

\* Nothing is left to happen for the task list: the page is mounted, every
\* notification has been received and its effect has run, and every task
\* fetch has completed.
TasksQuiet ==
    /\ app = "mounted"
    /\ wsQueue = <<>>
    /\ ~effectsPending
    /\ taskGets = EmptyBag
    /\ puts = EmptyBag

\* C8: once every task-event notification and every task fetch has
\* completed, the client's task list is the backend's list in the backend's
\* order, in whatever order the responses of the fetches arrived.
C8_ConsistentWhenQuiet == TasksQuiet => tasks = List(backend)

----------------------------------------------------------------------------
(* The three fetches and their outcomes: each view fetches at mount, the   *)
(* board again on every task event, while the backend publishes a metrics  *)
(* snapshot, records activities and has a task's status updated.           *)

InitFetch ==
    /\ InitApp
    /\ urlOk
    /\ InitViews
    /\ srvMetrics = 0
    /\ backend = StartList(MaxTasks - 1)
    /\ nextId = Len(backend) + 1
    /\ envLeft = MaxEnv
    /\ putsLeft = 0
    /\ srvActs = 0
    /\ actsLeft = MaxEnv

NextFetch ==
    \/ Mount
    \/ \E i \in Slots : SockOpen(i)
    \/ Receive
    \/ RunEffects
    \/ EnvMetrics
    \/ EnvActivity
    \/ \E id \in 1..MaxTasks, st \in Statuses : EnvUpdate(id, st)
    \/ \E g \in BagToSet(taskGets) : ServerAnswerTasks(g)
    \/ \E g \in BagToSet(taskGets), outcome \in Outcomes : TasksSettle(g, outcome)
    \/ \E g \in BagToSet(actGets) : ServerAnswerActs(g)
    \/ \E g \in BagToSet(actGets), outcome \in Outcomes : ActsSettle(g, outcome)
    \/ \E g \in BagToSet(metricsGets) : ServerAnswerMetrics(g)
    \/ \E g \in BagToSet(metricsGets), outcome \in Outcomes : MetricsSettle(g, outcome)

SpecFetch == InitFetch /\ [][NextFetch]_vars

\* A request of the bag settles without a 2xx answer: it leaves the bag
\* while the server has not answered it with the expected body.
Failed(gets, gets2) ==
    \E g \in BagToSet(gets) : g.stage = "sent" /\ gets2 = Remove(gets, g)

\* C10: when a fetch of tasks, activities or metrics fails, the cached list
\* or snapshot keeps the value it had before.
C10_FailedFetchKeepsCache ==
    [][/\ Failed(taskGets, taskGets') => tasks' = tasks
       /\ Failed(actGets, actGets') => activities' = activities
       /\ Failed(metricsGets, metricsGets') => metrics' = metrics]_vars

----------------------------------------------------------------------------
(* The connected flag *)

\* C11: the connected flag is false before the first open and, while the App
\* is mounted, true exactly when the socket is open: onopen raises it and
\* onclose lowers it, so it is false whenever the channel is down.
C11_ConnectedFlag ==
    /\ app = "new" => ~isConnected
    /\ app = "mounted" => (isConnected <=> SomeOpen)

\* The flag is up again on a socket opened after an earlier one had failed.
C11_Witness ==
    /\ app = "mounted"
    /\ isConnected
    /\ SomeOpen
    /\ "WebSocket error" \in log

----------------------------------------------------------------------------
(* Errors of the connection *)

\* An error event of a socket, or a throw of new WebSocket, has been logged.
ConnError == {"WebSocket error", "Failed to connect WebSocket"} \cap log # {}

\* C12: after a connection-level error the manager still retries: once the
\* error is logged, either a socket is in use or a call of connectWebSocket
\* is pending.
C12_RetriesAfterError == (ConnError /\ InUse = {}) => timers # <<>>

----------------------------------------------------------------------------
(* Publication of messages to the views *)

\* onmessage publishes a decoded message.
Publishes == Receive /\ JsonParse(Head(wsQueue))[1] /\ app = "mounted"

\* C13: every decodable message that arrives is processed once by every
\* view, in arrival order: a message is published only after the views'
\* effects have run on the message published before it, so that none is
\* replaced unprocessed.
C13_EachMessageProcessed == [][Publishes => ~effectsPending]_vars

----------------------------------------------------------------------------
(* Task events *)

\* The views' effects run on the published message.
EffectsRun == effectsPending /\ ~effectsPending'

\* A published task event is replaced, before the board's effect has run on
\* it, by a message that is not a task event.
TaskEventDropped ==
    /\ Publishes
    /\ effectsPending
    /\ wsData.type \in TaskEvents
    /\ wsData'.type \notin TaskEvents

\* The board's effect on a message: one GET /api/tasks for a task event,
\* nothing for any other message, and the list itself is left alone.
BoardReacts ==
    /\ (EffectsRun /\ wsData.type \in TaskEvents) => taskGets' = Add(taskGets, SentGet(NoDrag))
    /\ (EffectsRun /\ wsData.type \notin TaskEvents) => taskGets' = taskGets
    /\ (EffectsRun \/ Publishes) => tasks' = tasks

\* C14: every published task_created, task_updated or task_deleted message
\* makes the board issue a full refetch; no other message triggers a task
\* fetch, and no message changes the task list directly.
C14_TaskEventsRefetch == [][BoardReacts /\ ~TaskEventDropped]_vars

\* The reaction itself holds on every step; only the dropped event breaks C14.
BoardReactsAlways == [][BoardReacts]_vars

----------------------------------------------------------------------------
(* What a drag does to the local list and when *)

\* C15 as claimed: a drag that changes anything is applied to the local task
\* list and a persistence request is issued for it.
C15_Original ==
    [][\A a \in 1..MaxTasks, o \in 1..MaxTasks :
         (DragEnd(a, o) /\ <<tasks, puts>>' # <<tasks, puts>>) =>
            /\ tasks' # tasks
            /\ InFlight(puts') = InFlight(puts) + 1
      ]_vars

\* C15 amended: a same-status drag changes only the local list and sends
\* nothing; a cross-status drag sends one status update and leaves the local
\* list as it is; the arrival of the update's response changes nothing in
\* the list either, so nothing is confirmed or rolled back: the list changes
\* only by a same-status reorder or by the response of a task fetch.
C15_Amended ==
    [][/\ \A a \in 1..MaxTasks, o \in 1..MaxTasks :
             (DragEnd(a, o) /\ SameStatusDrag(a, o)) =>
                 /\ puts' = puts
                 /\ taskGets' = taskGets
                 /\ backend' = backend
       /\ \A a \in 1..MaxTasks, o \in 1..MaxTasks :
             (DragEnd(a, o) /\ CrossStatusDrag(a, o)) =>
                 /\ tasks' = tasks
                 /\ InFlight(puts') = InFlight(puts) + 1
       /\ \A p \in BagToSet(puts), oc \in PutOutcomes :
             PutSettle(p, oc) => tasks' = tasks
       /\ tasks' # tasks =>
             \/ \E a \in 1..MaxTasks, o \in 1..MaxTasks :
                   DragEnd(a, o) /\ SameStatusDrag(a, o)
             \/ \E g \in BagToSet(taskGets), oc \in Outcomes : TasksSettle(g, oc)
      ]_vars

\* A status update is in flight that the backend has not applied, and the
\* local list still shows the dragged task with its old status.
C15_Witness ==
    /\ Alive
    /\ \E p \in BagToSet(puts) :
          /\ p.req.id \in Ids(tasks.items)
          /\ p.req.id \in Ids(backend)
          /\ tasks.items[Find(tasks.items, p.req.id)].status # p.req.status
          /\ backend[Find(backend, p.req.id)].status # p.req.status

----------------------------------------------------------------------------
(* Drops that are no-ops *)

\* A drop with no target, with an id that is not in the list, or of a task
\* on itself.
NoOpDrop(a, o) ==
    \/ o = 0
    \/ a \notin Ids(tasks.items)
    \/ o \notin Ids(tasks.items)
    \/ a = o

\* C16: a drag-end with no drop target, with a dragged or target id that is
\* not in the task list, or with the task dropped on itself leaves the task
\* list as it is and sends no request.
\* (the first conjunct: what the updater returns for a drop on itself.)
C16_NoOpDrops ==
    /\ [](tasks.array =>
            \A a \in Ids(tasks.items) : Reorder(tasks.items, a, a) = tasks.items)
    /\ [][\A a \in 1..MaxTasks, o \in 0..MaxTasks :
            (DragEnd(a, o) /\ NoOpDrop(a, o)) =>
               /\ tasks' = tasks
               /\ puts' = puts
               /\ taskGets' = taskGets
         ]_vars

\* The board shows a reordered list of several tasks, an id of the backend
\* is missing from it, the user can still start a status update, and a
\* drag-end can be handled: every kind of no-op drop can be made here.
C16_Witness ==
    /\ Alive
    /\ Len(tasks.items) >= 2
    /\ putsLeft > 0
    /\ \E id \in 1..MaxTasks : id \notin Ids(tasks.items)
    /\ \E i \in 1..Len(tasks.items), j \in 1..Len(tasks.items) :
          i < j /\ tasks.items[i].id > tasks.items[j].id

----------------------------------------------------------------------------
(* The metrics snapshot and the live channel *)

\* C17: when the effects run on a metrics_update message the snapshot
\* becomes the message's data, every field of it; on any other message the
\* snapshot stays as it is, and publishing a message changes nothing yet.
C17_MetricsReplaced ==
    [][/\ (EffectsRun /\ wsData.type = "metrics_update") =>
             /\ metrics'.total_requests = wsData.data
             /\ metrics'.success_rate = wsData.data
             /\ metrics'.avg_latency = wsData.data
             /\ metrics'.active_agents = wsData.data
             /\ metrics'.valid
       /\ (EffectsRun /\ wsData.type # "metrics_update") => metrics' = metrics
       /\ Publishes => metrics' = metrics
      ]_vars

\* A snapshot pushed by the backend is shown, and a later message of another
\* type has been processed without changing it.
C17_Witness ==
    /\ metrics = Snapshot(1)
    /\ wsData.type = "task_completed"
    /\ ~effectsPending
    /\ app = "mounted"

----------------------------------------------------------------------------
(* The four columns *)

\* C18: the columns are filters of the task list: every task whose status is
\* one of the four appears in the column of its status as often as in the
\* list and in no other column, a column holds nothing else, and the tasks
\* of a column stand in the order they have in the full list.
C18_ColumnsPartition ==
    tasks.array =>
       LET items == tasks.items
       IN  /\ \A k \in 1..Len(items), st \in Statuses :
                 items[k].status \in Statuses =>
                    Count(Column(items, st), items[k])
                       = IF st = items[k].status THEN Count(items, items[k]) ELSE 0
           /\ \A st \in Statuses :
                 LET col == Column(items, st)
                 IN  /\ \A i \in 1..Len(col) :
                           col[i].status = st /\ Count(items, col[i]) > 0
                     /\ \A i \in 1..Len(col), j \in 1..Len(col) :
                           i < j => Pos(items, col[i].id) < Pos(items, col[j].id)

\* The list shown has tasks in two columns, and one column holds two tasks
\* that a drag has put in an order the backend never returns.
C18_Witness ==
    /\ Alive
    /\ Len(Column(tasks.items, "permanent")) >= 1
    /\ Len(Column(tasks.items, "backlog")) >= 2
    /\ Column(tasks.items, "backlog")[1].id > Column(tasks.items, "backlog")[2].id

----------------------------------------------------------------------------
(* Statuses *)

\* C19: the backend returning only tasks with one of the four statuses,
\* every task of the client's list has one of the four statuses, and so has
\* the body of every status update the client sends.
C19_StatusesValid ==
    /\ tasks.array => \A k \in 1..Len(tasks.items) : tasks.items[k].status \in Statuses
    /\ \A p \in BagToSet(puts) : p.req.status \in Statuses

\* The client shows a task in progress and is sending an update that moves
\* another task there.
C19_Witness ==
    /\ Alive
    /\ \E k \in 1..Len(tasks.items) : tasks.items[k].status = "in_progress"
    /\ \E p \in BagToSet(puts) : p.req.status = "in_progress"

----------------------------------------------------------------------------
(* Relative times: formatTime on ages around every minute of the first two *)
(* hours and around every hour up to MaxHours, a future date included      *)

Ages ==
    {m * 60000 + r : m \in (-1) .. 120, r \in {0, 30000, 59999}}
       \cup {h * 3600000 + r : h \in 1 .. MaxHours, r \in {-1, 0, 1800000}}

InitTime ==
    /\ InitApp
    /\ urlOk
    /\ InitViews
    /\ srvMetrics = 0
    /\ backend = <<>>
    /\ nextId = 1
    /\ envLeft = 0
    /\ putsLeft = 0
    /\ srvActs = 0
    /\ actsLeft = 0

NextTime == \E d \in Ages : RenderTime(d)

SpecTime == InitTime /\ [][NextTime]_vars

\* C20: formatTime buckets the elapsed time d (ms): under one minute it
\* gives "Just now"; from 1 to 59 whole minutes "Nm ago" with N the whole
\* minutes; from 1 to 23 whole hours "Nh ago" with N the whole hours; from
\* 24 hours on the calendar date; so each elapsed time gets exactly one.
C20_TimeBuckets ==
    timeView # NoTime =>
       LET d == timeView.diff
           t == timeView.text
       IN  /\ d < 60000 => t = [kind |-> "Just now", n |-> 0]
           /\ (60000 <= d /\ d < 60 * 60000) =>
                 /\ t.kind = "m ago"
                 /\ t.n * 60000 <= d /\ d < (t.n + 1) * 60000
                 /\ t.n \in 1..59
           /\ (3600000 <= d /\ d < 24 * 3600000) =>
                 /\ t.kind = "h ago"
                 /\ t.n * 3600000 <= d /\ d < (t.n + 1) * 3600000
                 /\ t.n \in 1..23
           /\ d >= 24 * 3600000 => t = [kind |-> "date", n |-> 0]

\* An age one ms short of 24 hours has been rendered as "23h ago".
C20_Witness ==
    /\ timeView.diff = 24 * 3600000 - 1
    /\ timeView.text = [kind |-> "h ago", n |-> 23]


----------------------------------------------------------------------------
(* A status update that fails *)

\* The ways a status update can fail: every outcome but a 2xx response.
FailedPut(outcome) == outcome # "ok"

\* C21: a failed status-update request is caught and logged and does not
\* undo local state: whichever way the request fails, the failure is logged
\* and the task list (with any same-column reorder applied earlier) is the
\* same after it as before.
C21_FailedUpdateLoggedListKept ==
    [][\A p \in BagToSet(puts), oc \in PutOutcomes :
         (PutSettle(p, oc) /\ FailedPut(oc)) =>
            /\ tasks' = tasks
            /\ "Failed to update task" \in log'
      ]_vars

----------------------------------------------------------------------------
(* What a same-status reorder leaves alone *)

\* C22: a same-status reorder changes only the order of the local task list:
\* no request of any kind is sent, every task is listed after it with the
\* fields it had before, and the backend's list and the live channel are as
\* they were.
C22_ReorderIsLocalOnly ==
    [][\A a \in 1..MaxTasks, o \in 1..MaxTasks :
         (DragEnd(a, o) /\ SameStatusDrag(a, o)) =>
            /\ <<puts, taskGets, metricsGets, actGets>>' = <<puts, taskGets, metricsGets, actGets>>
            /\ <<backend, wsQueue>>' = <<backend, wsQueue>>
            /\ Ids(tasks'.items) = Ids(tasks.items)
            /\ \A id \in Ids(tasks.items) :
                  tasks'.items[Pos(tasks'.items, id)] = tasks.items[Pos(tasks.items, id)]
      ]_vars

\* A reorder is all that has happened to the board: the local list holds the
\* backend's tasks in another order, no drag has sent a status update, the
\* backend has had no other writer and nothing is in flight.
C22_Witness ==
    /\ Alive
    /\ putsLeft = MaxPuts
    /\ envLeft = MaxEnv
    /\ puts = EmptyBag
    /\ taskGets = EmptyBag
    /\ Len(tasks.items) = Len(backend)
    /\ tasks.items # backend
    /\ \A k \in 1..Len(backend) : Count(tasks.items, backend[k]) = 1

----------------------------------------------------------------------------
(* After the unmount *)

\* A socket is created by this step.
Opens == \E i \in Slots : socks'[i] = "connecting" /\ socks[i] # "connecting"

\* A reconnect is scheduled by this step, or a scheduled one runs.
Reconnects == Len(timers') > Len(timers) \/ \E k \in 1..Len(timers) : TimerFire(k)

\* C23: the cleanup of the unmount closes the socket, and once the App is
\* unmounted no step opens a socket, schedules a reconnect or runs one.
C23_NoReconnectAfterUnmount ==
    [][/\ Unmount => (wsRef # 0 => socks'[wsRef] \in {"closing", "closed"})
       /\ app = "unmounted" => ~Opens /\ ~Reconnects
      ]_vars

----------------------------------------------------------------------------
(* Destinations of a drag *)

\* The statuses that tasks of the local list other than task a have: the
\* columns a drop of task a can land in.
Occupied(a) ==
    {st \in Statuses :
        \E k \in 1..Len(Column(tasks.items, st)) : Column(tasks.items, st)[k].id # a}

\* The status updates this step sends.
NewPuts == {p \in BagToSet(puts') : CopiesIn(p, puts') > CopiesIn(p, puts)}

----------------------------------------------------------------------------
(* The initial fetch of activities against the live channel *)

\* The entries of the list that came from the backend, by the fetch or by
\* an activity_created message.
FromServer(items) == SelectSeq(items, LAMBDA e : e.src = "server")

\* C25: the activity list never holds two entries with the same id: however
\* the response of the initial fetch and the activity_created messages for
\* activities it also contains are interleaved, each activity of the backend
\* is listed at most once.
C25_NoDuplicateActivity ==
    activities.array =>
        \A i \in 1..Len(FromServer(activities.items)),
           j \in 1..Len(FromServer(activities.items)) :
              i # j => FromServer(activities.items)[i].id # FromServer(activities.items)[j].id

----------------------------------------------------------------------------
(* The initial fetch of metrics against the live channel *)

\* The backend's snapshots are numbered as it computes them; a snapshot in
\* the metrics state carries its number in each field.
Version(m) == m.total_requests

\* C26: the metrics snapshot never moves back to older data: no step
\* replaces a snapshot by one the backend computed before it, so the
\* response of the initial fetch does not overwrite a metrics_update that has
\* been applied.
C26_MetricsNeverOlder ==
    [][(metrics.valid /\ metrics'.valid) => Version(metrics') >= Version(metrics)]_vars

====
